---------------------------- MODULE Spec2Model ----------------------------
(***************************************************************************)
(* A model of mdx's chunked ingestion engine: class Simulation of          *)
(* src/mdx/ingest.py (chunk validation, path resolution, the lazy bag      *)
(* pipelines of read_trajectory / read_bonds / read_species, read_thermo,  *)
(* and the per-segment parsers __process_*_step).                          *)
(*                                                                         *)
(* Text is modelled after tokenisation: a line is a sequence of tokens, a  *)
(* token is an integer literal, a decimal literal or a word.  Decimal      *)
(* values are kept in tenths (0.9 is 9), so float() of the integer literal *)
(* 2 is 20 tenths.  A Python call that may raise returns a record          *)
(* [err, val]: err = "" on success, the exception's name otherwise.        *)
(***************************************************************************)
EXTENDS Integers, Sequences, FiniteSets, TLC

VARIABLES
    meta,        \* self.meta: n_chunks, n_atoms, step_size
    given,       \* the chunks argument of Simulation(...)
    eager,       \* self.eager
    disk,        \* the files under data_path: disk[kind][chunk]
    pc,          \* "new" before __init__, "ready" after, "dead" if it raised
    chunks,      \* self.chunks
    trajectory,  \* self.trajectory
    bonds,       \* self.bonds
    species,     \* self.species
    thermo,      \* self.thermo
    call,        \* the last call made on the object and how it ended
    arg,         \* the argument of a parser applied on its own
    ret          \* what that parser returned or raised

vars == <<meta, given, eager, disk, pc, chunks, trajectory, bonds, species,
          thermo, call, arg, ret>>

objvars == <<meta, given, eager, disk, pc, chunks, trajectory, bonds,
             species, thermo, call>>

-----------------------------------------------------------------------------
(* Bounds of the model *)

MaxChunks == 2      \* n_chunks ranges over 1..MaxChunks
MaxReq == 2         \* longest requested chunk list
MaxSegs == 2        \* most segments in one chunk file
MaxRecs == 2        \* most bond records in one bond segment
MaxK == 2           \* most neighbours in one bond record
NAtoms == 3         \* n_atoms of the metadata used by the parsers
MaxSpecies == 2     \* most species names / counts in one species segment
MaxItems == 2       \* most sub-blocks in one trajectory segment
MaxRows == 2        \* most table lines in one thermo log

-----------------------------------------------------------------------------
(* Generic helpers *)

Range(s) == {s[x] : x \in DOMAIN s}

SeqsUpTo(S, n) == UNION {[1..k -> S] : k \in 0..n}

Min2(a, b) == IF a <= b THEN a ELSE b

\* Python's s[a:b] for 0 <= a, on a 1-based TLA+ sequence
Slice(s, a, b) ==
    LET hi == Min2(b, Len(s))
    IN  IF a >= hi THEN <<>> ELSE [x \in 1..(hi - a) |-> s[a + x]]

\* Python's s[a:]
From(s, a) == Slice(s, a, Len(s))

\* Python's [x] * k
Repeat(x, k) == [m \in 1..(IF k > 0 THEN k ELSE 0) |-> x]

RECURSIVE SumSeq(_)
SumSeq(s) == IF s = <<>> THEN 0 ELSE s[1] + SumSeq(Tail(s))

RECURSIVE Flatten(_)
Flatten(ss) == IF ss = <<>> THEN <<>> ELSE ss[1] \o Flatten(Tail(ss))

\* F applied to the value of v, with v evaluated once
Let(v, F(_)) == CHOOSE out \in {F(x) : x \in {v}} : TRUE

Ok(v) == [err |-> "", val |-> v]
Err(e) == [err |-> e, val |-> <<>>]

-----------------------------------------------------------------------------
(* Tokens and Python's conversions of them *)

I(n) == [k |-> "i", n |-> n, s |-> ""]      \* the integer literal n
F(t) == [k |-> "f", n |-> t, s |-> ""]      \* the decimal literal t/10
W(s) == [k |-> "w", n |-> 0, s |-> s]       \* any other word

\* int(tok): only an integer literal converts
PyInt(tok) == IF tok.k = "i" THEN Ok(tok.n) ELSE Err("ValueError")

\* float(tok), in tenths: integer and decimal literals convert
PyFloat(tok) ==
    IF tok.k = "i" THEN Ok(10 * tok.n)
    ELSE IF tok.k = "f" THEN Ok(tok.n)
    ELSE Err("ValueError")

\* int(line) of a whole line of text: one integer literal, blanks around it
PyIntLine(line) ==
    IF Len(line) = 1 THEN PyInt(line[1]) ELSE Err("ValueError")

-----------------------------------------------------------------------------
(* __process_bond_step: one bond segment -> a frame with a sparse matrix *)

\* line.split()[:-3]: the record without its three trailing fields
BondFields(line) == Slice(line, 0, Len(line) - 3)

\* line[3 : 3 + k]: the k neighbour ids
BondNeighbours(line, k) == Slice(line, 3, 3 + k)

\* line[k + 4 :]: the bond orders, after one skipped field
BondOrdersMut(line, k) == From(line, k + 3)
BondOrders(line, k) == From(line, k + 4)

\* One pass of the loop body: the (i, j, v) this record appends
BondLine(line0) ==
    Let(BondFields(line0), LAMBDA line :
        IF Len(line) < 1 THEN Err("IndexError")
        ELSE IF PyInt(line[1]).err # "" THEN Err("ValueError")
        ELSE IF Len(line) < 3 THEN Err("IndexError")
        ELSE IF PyInt(line[3]).err # "" THEN Err("ValueError")
        ELSE
          LET a  == PyInt(line[1]).val
              k  == PyInt(line[3]).val
              js == BondNeighbours(line, k)
              vs == BondOrders(line, k)
          IN  IF \E m \in DOMAIN js : PyInt(js[m]).err # ""
                THEN Err("ValueError")
              ELSE IF \E m \in DOMAIN vs : PyFloat(vs[m]).err # ""
                THEN Err("ValueError")
              ELSE Ok([i |-> Repeat(a - 1, k),
                       j |-> [m \in DOMAIN js |-> PyInt(js[m]).val - 1],
                       v |-> [m \in DOMAIN vs |-> PyFloat(vs[m]).val]]))

\* sparse.COO((i, j), v, shape=(n, n)): coordinate lists of unequal length are
\* rejected; equal coordinates have their values summed.
COO(i, j, v, n) ==
    IF Len(i) # Len(j) \/ Len(v) # Len(i) THEN Err("ValueError")
    ELSE Ok([shape |-> <<n, n>>,
             data  |-> [rc \in (0..(n - 1)) \X (0..(n - 1)) |->
                          SumSeq([m \in DOMAIN v |->
                                    IF <<i[m], j[m]>> = rc THEN v[m] ELSE 0])]])

\* the lists i, j, v accumulated over the records, made into the matrix
Accumulated(recs, n_atoms) ==
    Let(<<Flatten([m \in DOMAIN recs |-> recs[m].val.i]),
          Flatten([m \in DOMAIN recs |-> recs[m].val.j]),
          Flatten([m \in DOMAIN recs |-> recs[m].val.v])>>,
        LAMBDA ijv : COO(ijv[1], ijv[2], ijv[3], n_atoms))

process_bond_step(step_text, n_atoms) ==
    IF step_text = <<>> THEN Err("IndexError")
    ELSE IF PyIntLine(step_text[1]).err # "" THEN Err("ValueError")
    ELSE
      Let([m \in 1..(Len(step_text) - 1) |-> BondLine(step_text[m + 1])],
          LAMBDA recs :
            LET bad == {m \in DOMAIN recs : recs[m].err # ""}
            IN  IF bad # {}
                  THEN Err(recs[CHOOSE m \in bad : \A o \in bad : m <= o].err)
                ELSE
                  Let(Accumulated(recs, n_atoms),
                      LAMBDA coo :
                        IF coo.err # "" THEN Err(coo.err)
                        ELSE Ok([timestep |-> PyIntLine(step_text[1]).val,
                                 bonds    |-> coo.val])))

-----------------------------------------------------------------------------
(* __process_species_step: one species segment -> a frame with a mapping *)

\* header[2:]: the species names, after the two reserved tokens
SpeciesNamesMut(header) == From(header, 1)
SpeciesNames(header) == From(header, 2)

\* data[2:], once the timestep is popped: the per-species counts
SpeciesCounts(data) == From(data, 2)

\* zip(header[2:], data[2:]): pairs up to the shorter of the two
ZipLen(names, counts) == Min2(Len(names), Len(counts))

\* the dict built by the loop: a later pair of the same name overwrites
SpeciesDict(names, counts) ==
    LET n == ZipLen(names, counts)
    IN  [s \in {names[m] : m \in 1..n} |->
            PyInt(counts[CHOOSE m \in 1..n :
                           names[m] = s /\ \A o \in 1..n : names[o] = s => o <= m]).val]

process_species_step(step_text) ==
    IF Len(step_text) # 2 THEN Err("ValueError")
    ELSE
      LET header == step_text[1]
          data0  == step_text[2]
      IN  IF data0 = <<>> THEN Err("IndexError")
          ELSE IF PyInt(data0[1]).err # "" THEN Err("ValueError")
          ELSE
            LET data   == Tail(data0)
                names  == SpeciesNames(header)
                counts == SpeciesCounts(data)
                n      == ZipLen(names, counts)
            IN  IF Len(data) < 1 THEN Err("IndexError")
                ELSE IF PyInt(data[1]).err # "" THEN Err("ValueError")
                ELSE IF Len(data) < 2 THEN Err("IndexError")
                ELSE IF PyInt(data[2]).err # "" THEN Err("ValueError")
                ELSE IF \E m \in 1..n : PyInt(counts[m]).err # ""
                  THEN Err("ValueError")
                ELSE Ok([timestep   |-> PyInt(data0[1]).val,
                         no_moles   |-> PyInt(data[1]).val,
                         no_species |-> PyInt(data[2]).val,
                         species    |-> SpeciesDict(names, counts)])

-----------------------------------------------------------------------------
(* __process_traj_step: one trajectory segment -> a frame *)

\* A piece of a segment split on "ITEM: ": its first line (head), whether a
\* line break follows it (nl), and the lines after it as "\n".split gives
\* them, the empty last one included (body).
Piece(head, body, nl) == [head |-> head, body |-> body, nl |-> nl]

\* Words made of capitals only; a word with a character outside [A-z ];
\* every other word is made of [A-z] characters, not all capitals.
UpperWords == {"NUMBER", "OF", "ATOMS", "BOX", "BOUNDS", "DIMENSIONS",
               "TIMESTEP", "FOO", "ID"}
NonAlphaWords == {"c_1"}

IsUpper(tok) == tok.k = "w" /\ tok.s \in UpperWords
IsAlpha(tok) == tok.k = "w" /\ tok.s \notin NonAlphaWords

valid_itemsMut == {<<"NUMBER", "OF", "ATOMS">>, <<"BOX", "BOUNDS">>, <<"ATOMS">>}
valid_items == {<<"NUMBER", "OF", "ATOMS">>, <<"BOX", "BOUNDS">>,
                <<"ATOMS">>, <<"DIMENSIONS">>}

\* re.search("([A-Z ]*)([A-z ]*)\n((.*[\n]?)*)", item): no match without a
\* line break; otherwise the match starts after the last character of the
\* first line that is outside [A-z ], the label is the longest run of
\* capitals and blanks from there, the header the rest of the line.
item_regex(item) ==
    IF ~item.nl THEN Err("AttributeError")
    ELSE
      LET h     == item.head
          stops == {m \in DOMAIN h : ~IsAlpha(h[m])}
          p     == IF stops = {} THEN 0
                   ELSE CHOOSE m \in stops : \A o \in stops : o <= m
          r     == From(h, p)
          lows  == {m \in DOMAIN r : ~IsUpper(r[m])}
          q     == IF lows = {} THEN Len(r)
                   ELSE (CHOOSE m \in lows : \A o \in lows : m <= o) - 1
      IN  Ok([label  |-> [m \in 1..q |-> r[m].s],
              header |-> From(r, q),
              data   |-> item.body])

\* data.split("\n")[:-1]
AllButLast(lines) == Slice(lines, 0, Len(lines) - 1)

NaN == [k |-> "nan", n |-> 0, s |-> ""]

\* ascending order of index values, missing values last
IdLeq(a, b) == b.k = "nan" \/ (a.k # "nan" /\ a.n <= b.n)

RECURSIVE InsertRow(_, _)
InsertRow(sorted, row) ==
    IF sorted = <<>> THEN <<row>>
    ELSE IF IdLeq(sorted[1].id, row.id) THEN <<sorted[1]>> \o InsertRow(Tail(sorted), row)
    ELSE <<row>> \o sorted

RECURSIVE sort_index(_)
sort_index(rows) ==
    IF rows = <<>> THEN <<>>
    ELSE Let(sort_index(AllButLast(rows)),
             LAMBDA sorted : InsertRow(sorted, rows[Len(rows)]))

\* pd.read_csv(io.StringIO(data), sep=" ", names=names): blank lines are
\* skipped; a short line is padded with missing values; when lines carry
\* more fields than there are names, the leading extra fields become the
\* index and the names are given to the fields after them.
read_csv(data, names) ==
    LET lines == SelectSeq(data, LAMBDA l : l # <<>>)
        width == IF lines = <<>> THEN 0
                 ELSE CHOOSE w \in {Len(lines[m]) : m \in DOMAIN lines} :
                        \A m \in DOMAIN lines : Len(lines[m]) <= w
        extra == IF width > Len(names) THEN width - Len(names) ELSE 0
    IN  IF lines = <<>> THEN Err("EmptyDataError")
        ELSE Ok([m \in DOMAIN lines |->
                  [c \in Range(names) |->
                     LET pos == extra + (CHOOSE x \in DOMAIN names : names[x] = c)
                     IN  IF pos <= Len(lines[m]) THEN lines[m][pos] ELSE NaN]])

\* .set_index("id").sort_index(): rows keyed by their id, ascending
set_index_sort(table) ==
    IF W("id") \notin DOMAIN table[1] THEN Err("KeyError")
    ELSE Ok(Let([m \in DOMAIN table |->
                   [id |-> table[m][W("id")], row |-> table[m]]],
                LAMBDA rows : sort_index(rows)))

EmptyFrame ==
    [timestep |-> 0,
     n_atoms  |-> [set |-> FALSE, val |-> 0],
     atomic   |-> [set |-> FALSE, rows |-> <<>>],
     box      |-> [set |-> FALSE, style |-> <<>>, bounds |-> <<>>]]

\* The body of the loop over the segment's items
TrajItem(item, frame) ==
    Let(item_regex(item), LAMBDA m :
        IF m.err # "" THEN Err(m.err)
        ELSE IF m.val.label \notin valid_items THEN Err("InvalidItem")
        ELSE IF m.val.label = <<"BOX", "BOUNDS">> THEN
          LET lines == AllButLast(m.val.data)
          IN  IF \E x \in DOMAIN lines : \E y \in DOMAIN lines[x] :
                    PyFloat(lines[x][y]).err # ""
                THEN Err("ValueError")
              ELSE Ok([frame EXCEPT !.box =
                        [set    |-> TRUE,
                         style  |-> m.val.header,
                         bounds |-> [x \in DOMAIN lines |->
                                      [y \in DOMAIN lines[x] |->
                                         PyFloat(lines[x][y]).val]]]])
        ELSE IF m.val.label = <<"ATOMS">> THEN
          Let(read_csv(m.val.data, m.val.header), LAMBDA t :
              IF t.err # "" THEN Err(t.err)
              ELSE Let(set_index_sort(t.val), LAMBDA a :
                       IF a.err # "" THEN Err(a.err)
                       ELSE Ok([frame EXCEPT !.atomic =
                                  [set |-> TRUE, rows |-> a.val]])))
        ELSE Ok(frame))

RECURSIVE TrajItems(_, _)
TrajItems(items, frame) ==
    IF items = <<>> THEN Ok(frame)
    ELSE Let(TrajItem(items[1], frame), LAMBDA r :
             IF r.err # "" THEN r ELSE TrajItems(Tail(items), r.val))

\* the text of a piece, stripped and tokenised
PieceTokens(piece) == piece.head \o Flatten(piece.body)

process_traj_step(step_text) ==
    IF step_text = <<>> THEN Err("IndexError")
    ELSE IF PyIntLine(PieceTokens(step_text[1])).err # "" THEN Err("ValueError")
    ELSE TrajItems(Tail(step_text),
                   [EmptyFrame EXCEPT
                      !.timestep = PyIntLine(PieceTokens(step_text[1])).val])

-----------------------------------------------------------------------------
(* The parsers applied on their own: inputs *)

BondOrderValues == {8, 9}                     \* 0.8 and 0.9

\* The neighbour ids and bond orders of one record: a, then k ids, k orders
BondRecordData ==
    UNION {[a : 1..NAtoms, ns : [1..k -> 1..NAtoms], bs : [1..k -> BondOrderValues]]
             : k \in 0..MaxK}

\* The record as LAMMPS writes it: id type nb id_1..id_nb mol bo_1..bo_nb
\* abo nlp q
LammpsRecord(d) ==
    <<I(d.a), I(1), I(Len(d.ns))>> \o [m \in DOMAIN d.ns |-> I(d.ns[m])]
      \o <<I(0)>> \o [m \in DOMAIN d.bs |-> F(d.bs[m])] \o <<F(0), F(0), F(0)>>

\* The record with four ignored fields between the ids and the orders and
\* nothing after them, as in "1 1 2 2 3 0.0 0.0 0.0 0.0 0.9 0.8"
TrailingRecord(d) ==
    <<I(d.a), I(1), I(Len(d.ns))>> \o [m \in DOMAIN d.ns |-> I(d.ns[m])]
      \o <<F(0), F(0), F(0), F(0)>> \o [m \in DOMAIN d.bs |-> F(d.bs[m])]

BondText(layout, recs) ==
    <<(<<I(5)>>)>> \o [m \in DOMAIN recs |->
                        IF layout = "lammps" THEN LammpsRecord(recs[m])
                        ELSE TrailingRecord(recs[m])]

BondInputs ==
    {[fn |-> "bond", layout |-> l, recs |-> rs, text |-> BondText(l, rs)] :
        l \in {"lammps", "trailing"}, rs \in SeqsUpTo(BondRecordData, MaxRecs)}

SpeciesNameTokens == {W("H2O"), W("NaCl")}
SpeciesCountTokens == {I(20), I(30), W("x")}

SpeciesText(names, counts) ==
    << <<W("#"), W("id")>> \o names, <<I(100), I(50), I(2)>> \o counts >>

SpeciesInputs ==
    {[fn |-> "species", layout |-> "", recs |-> <<names, counts>>,
      text |-> SpeciesText(names, counts)] :
        names \in SeqsUpTo(SpeciesNameTokens, MaxSpecies),
        counts \in SeqsUpTo(SpeciesCountTokens, MaxSpecies)}

\* Sub-blocks of a trajectory segment, well formed and not
ItemNumber == Piece(<<W("NUMBER"), W("OF"), W("ATOMS")>>, << <<I(2)>>, <<>> >>, TRUE)
ItemBox ==
    Piece(<<W("BOX"), W("BOUNDS"), W("pp"), W("pp"), W("pp")>>,
          << <<F(0), F(100)>>, <<F(0), F(100)>>, <<F(0), F(100)>>, <<>> >>, TRUE)
ItemBoxBad ==
    Piece(<<W("BOX"), W("BOUNDS"), W("pp")>>, << <<F(0), W("x")>>, <<>> >>, TRUE)
ItemAtoms ==
    Piece(<<W("ATOMS"), W("id"), W("type"), W("xu")>>,
          << <<I(2), I(1), F(15)>>, <<I(1), I(1), F(5)>>, <<>> >>, TRUE)
\* the same atom id on two body lines
ItemAtomsDup ==
    Piece(<<W("ATOMS"), W("id"), W("type"), W("xu")>>,
          << <<I(1), I(1), F(15)>>, <<I(1), I(1), F(5)>>, <<>> >>, TRUE)
ItemAtomsNoId ==
    Piece(<<W("ATOMS"), W("type"), W("xu")>>, << <<I(1), F(5)>>, <<>> >>, TRUE)
ItemDimensions == Piece(<<W("DIMENSIONS")>>, << <<I(3)>>, <<>> >>, TRUE)
ItemFoo == Piece(<<W("FOO")>>, << <<I(1)>>, <<>> >>, TRUE)
ItemUpperHeader ==
    Piece(<<W("ATOMS"), W("ID"), W("type")>>, << <<I(1), I(1)>>, <<>> >>, TRUE)
ItemDigitHeader ==
    Piece(<<W("ATOMS"), W("id"), W("c_1")>>, << <<I(1), I(1)>>, <<>> >>, TRUE)
ItemNoBreak == Piece(<<W("DIMENSIONS")>>, <<>>, FALSE)

TrajItemPool ==
    {ItemNumber, ItemBox, ItemBoxBad, ItemAtoms, ItemAtomsDup, ItemAtomsNoId,
     ItemDimensions, ItemFoo, ItemUpperHeader, ItemDigitHeader, ItemNoBreak}

\* The leading piece "\n<timestep>\n" of a segment
StepPiece(tok) == Piece(<<>>, << <<tok>>, <<>> >>, TRUE)

TrajInputs ==
    {[fn |-> "traj", layout |-> "", recs |-> items,
      text |-> <<StepPiece(t)>> \o items] :
        t \in {I(100), W("x")}, items \in SeqsUpTo(TrajItemPool, MaxItems)}

ParseInputs == BondInputs \cup SpeciesInputs \cup TrajInputs

-----------------------------------------------------------------------------
(* Chunk validation and path resolution *)

\* The chunks argument: None, one int, or a list of ints
GivenNone == [t |-> "none", i |-> 0, l |-> <<>>]
GivenInt(n) == [t |-> "int", i |-> n, l |-> <<>>]
GivenList(l) == [t |-> "list", i |-> 0, l |-> l]

\* valid_chunks = [i for i in range(meta_chunks)]
valid_chunks(meta_chunks) == [x \in 1..meta_chunks |-> x - 1]

\* set(given_chunks) <= set(valid_chunks)
InRangeMut(given_chunks, meta_chunks) ==
    Range(given_chunks) \subseteq Range(valid_chunks(meta_chunks + 1))
InRange(given_chunks, meta_chunks) ==
    Range(given_chunks) \subseteq Range(valid_chunks(meta_chunks))

decide_chunks(given_chunks, meta_chunks) ==
    IF given_chunks.t # "none" THEN
      LET l == IF given_chunks.t = "int" THEN <<given_chunks.i>> ELSE given_chunks.l
      IN  IF InRange(l, meta_chunks) THEN Ok(l) ELSE Err("InvalidChunks")
    ELSE Ok(valid_chunks(meta_chunks))

\* The path of one chunk's file of one kind:
\* {base}/{chunk}/{prefix}_{sim_id}_{chunk}{ext}
Path(kind, chunk) == [kind |-> kind, chunk |-> chunk]

\* check_path: the assertion that the file exists
check_path(path) == disk[path.kind][path.chunk].exists

\* the indices of a list of chunks, each once, in ascending order
RECURSIVE SortedSet(_)
SortedSet(S) ==
    IF S = {} THEN <<>>
    ELSE LET lo == CHOOSE x \in S : \A y \in S : x <= y
         IN  <<lo>> \o SortedSet(S \ {lo})

get_data_filesMut(kind) ==
    IF \E m \in DOMAIN chunks : ~check_path(Path(kind, chunks[m]))
      THEN Err("AssertionError")
    ELSE Ok([m \in DOMAIN SortedSet(Range(chunks)) |->
               Path(kind, SortedSet(Range(chunks))[m])])

\* __get_data_files: one checked path per entry of self.chunks, in its order
get_data_files(kind) ==
    IF \E m \in DOMAIN chunks : ~check_path(Path(kind, chunks[m]))
      THEN Err("AssertionError")
    ELSE Ok([m \in DOMAIN chunks |-> Path(kind, chunks[m])])

-----------------------------------------------------------------------------
(* The bag pipelines of read_bonds, read_species and read_trajectory *)

\* db.read_text(paths, linedelimiter=...): the raw segments of the files, file
\* after file in the order of the paths, each file's in its own order
read_text(paths) ==
    Flatten([m \in DOMAIN paths |-> disk[paths[m].kind][paths[m].chunk].segs])

\* bag.remove(pred)
Remove(bag, pred(_)) == SelectSeq(bag, LAMBDA x : ~pred(x))

\* A raw line of a bond file: a comment line (hash), an empty line, or fields
RawLine(hash, toks) == [hash |-> hash, toks |-> toks]
BondDelim == <<RawLine(TRUE, <<W("#"), W("Timestep")>>)>>

\* [line for line in x.split("\n") if not (line.startswith("#") or line == "")]
data_lines(x) ==
    LET kept == SelectSeq(x, LAMBDA l : ~(l.hash \/ l.toks = <<>>))
    IN  [m \in DOMAIN kept |-> kept[m].toks]

\* read_bonds: the frames the pipeline yields, one parse result per segment
bonds_corpus(paths) ==
    Let(Remove(read_text(paths), LAMBDA x : x = BondDelim), LAMBDA b1 :
    Let([m \in DOMAIN b1 |-> data_lines(b1[m])], LAMBDA b2 :
    Let(Remove(b2, LAMBDA x : x = <<>>), LAMBDA b3 :
        [m \in DOMAIN b3 |-> process_bond_step(b3[m], meta.n_atoms)])))

\* read_species: x[1:].split("\n")[:-1], empty lists removed, then parsed
species_corpus(paths) ==
    Let(read_text(paths), LAMBDA raw :
    Let([m \in DOMAIN raw |-> AllButLast(raw[m])], LAMBDA b1 :
    Let(Remove(b1, LAMBDA x : x = <<>>), LAMBDA b2 :
        [m \in DOMAIN b2 |-> process_species_step(b2[m])])))

\* The pieces "ITEM: TIMESTEP" splits into, and the piece "TIMESTEP"
TimestepPiece == Piece(<<W("TIMESTEP")>>, <<>>, FALSE)
TrajDelim == <<Piece(<<>>, <<>>, FALSE), TimestepPiece>>

\* x[:-1] if x[-1] == "TIMESTEP" else x
drop_timestep(x) == IF x[Len(x)] = TimestepPiece THEN AllButLast(x) ELSE x

\* read_trajectory, lines 97-108: no .distinct() is applied
traj_corpus(paths) ==
    Let(Remove(read_text(paths), LAMBDA x : x = TrajDelim), LAMBDA b1 :
    Let([m \in DOMAIN b1 |-> drop_timestep(b1[m])], LAMBDA b2 :
        [m \in DOMAIN b2 |-> process_traj_step(b2[m])]))

XarrayColumns == {W("xu"), W("yu"), W("zu"), W("vx"), W("vy"), W("vz"),
                  W("q"), W("type")}

\* The dict of arrays built from a frame (lines 111-129)
frame_arrays(x) ==
    IF ~x.atomic.set THEN Err("TypeError")
    ELSE IF \E m \in DOMAIN x.atomic.rows :
              ~(XarrayColumns \subseteq DOMAIN x.atomic.rows[m].row)
      THEN Err("KeyError")
    ELSE IF ~x.box.set THEN Err("KeyError")
    ELSE Ok([step |-> <<x.timestep>>,
             ids  |-> <<[m \in DOMAIN x.atomic.rows |-> x.atomic.rows[m].id]>>,
             r    |-> <<[m \in DOMAIN x.atomic.rows |->
                          <<x.atomic.rows[m].row[W("xu")],
                            x.atomic.rows[m].row[W("yu")],
                            x.atomic.rows[m].row[W("zu")]>>]>>,
             box  |-> <<x.box.bounds>>])

form_frame_datasetMut(frame, n_atoms) ==
    IF Len(frame.box[1]) # 3 THEN Err("ValueError")
    ELSE Ok([frame EXCEPT !.ids = <<[m \in 1..Len(frame.r[1]) |-> m]>>])

\* __form_frame_dataset: the atom axis is labelled 1..n_atoms and the pos axis
\* x, y, z, so arrays of another length are rejected
form_frame_dataset(frame, n_atoms) ==
    IF Len(frame.r[1]) # n_atoms THEN Err("ValueError")
    ELSE IF Len(frame.box[1]) # 3 THEN Err("ValueError")
    ELSE Ok([frame EXCEPT !.ids = <<[m \in 1..n_atoms |-> m]>>])

\* xr.concat([x, y], dim="step")
xr_concat(x, y) ==
    [step |-> x.step \o y.step, ids |-> x.ids,
     r |-> x.r \o y.r, box |-> x.box \o y.box]

RECURSIVE fold_concat(_)
\* .fold(lambda x, y: xr.concat([x, y], dim="step"))
fold_concat(dss) ==
    IF Len(dss) = 1 THEN dss[1]
    ELSE Let(fold_concat(AllButLast(dss)),
             LAMBDA x : xr_concat(x, dss[Len(dss)]))

\* One dataset per frame (lines 110-130)
xarray_corpus(paths) ==
    Let(traj_corpus(paths), LAMBDA fr :
        [m \in DOMAIN fr |->
          IF fr[m].err # "" THEN fr[m]
          ELSE Let(frame_arrays(fr[m].val), LAMBDA a :
                   IF a.err # "" THEN a
                   ELSE form_frame_dataset(a.val, meta.n_atoms))])

computeMut(results) ==
    LET good == SelectSeq(results, LAMBDA r : r.err = "")
    IN  {Ok([m \in DOMAIN good |-> good[m].val])}

\* bag.compute(): the list of the elements, or the exception of a failing
\* element; partitions are evaluated concurrently, so with several failing
\* elements any of their exceptions may be the one raised.
compute(results) ==
    LET bad == {m \in DOMAIN results : results[m].err # ""}
    IN  IF bad # {} THEN {Err(results[m].err) : m \in bad}
        ELSE {Ok([m \in DOMAIN results |-> results[m].val])}

\* compute() of the folded bag: one dataset; an empty bag has nothing to fold
compute_fold(results) ==
    LET bad == {m \in DOMAIN results : results[m].err # ""}
    IN  IF bad # {} THEN {Err(results[m].err) : m \in bad}
        ELSE IF results = <<>> THEN {Err("TypeError")}
        ELSE {Ok(fold_concat([m \in DOMAIN results |-> results[m].val]))}

\* What forcing the stored pipeline of an attribute can give
Outcomes(kind, format, paths) ==
    IF kind = "bonds"
      THEN Let(bonds_corpus(paths), LAMBDA bag : compute(bag))
    ELSE IF kind = "species"
      THEN Let(species_corpus(paths), LAMBDA bag : compute(bag))
    ELSE IF format = "xarray"
      THEN Let(xarray_corpus(paths), LAMBDA bag : compute_fold(bag))
    ELSE Let(traj_corpus(paths), LAMBDA bag : compute(bag))

-----------------------------------------------------------------------------
(* read_thermo *)

\* A float of the table: missing (NaN) or a value in tenths
Num(v) == [nan |-> FALSE, v |-> v]
NumNaN == [nan |-> TRUE, v |-> 0]

\* x * step_size
BoxtimeOfMut(step, step_size) ==
    IF step.nan THEN NumNaN ELSE Num(step.v + step_size)
BoxtimeOf(step, step_size) ==
    IF step.nan THEN NumNaN ELSE Num(step.v * step_size)

\* The rows of one log: corpus.split("\n")[1:], each line's items as floats,
\* the last row dropped; then pd.DataFrame(rows, columns=headers)
log_frame(file) ==
    IF ~file.marker THEN Err("IndexError")
    ELSE
      LET lines   == file.segs
          headers == <<W("Step")>> \o lines[1]
          body    == Tail(lines)
          rows    == AllButLast(body)
          width   == IF rows = <<>> THEN Len(headers)
                     ELSE CHOOSE w \in {Len(rows[m]) : m \in DOMAIN rows} :
                            \A m \in DOMAIN rows : Len(rows[m]) <= w
      IN  IF \E m \in DOMAIN body : \E x \in DOMAIN body[m] :
                PyFloat(body[m][x]).err # ""
            THEN Err("ValueError")
          ELSE IF width # Len(headers) THEN Err("ValueError")
          ELSE Ok([columns |-> Range(headers),
                   rows |-> [m \in DOMAIN rows |->
                     [index |-> m - 1,
                      cols  |-> [c \in Range(headers) |->
                         LET pos == CHOOSE x \in DOMAIN headers : headers[x] = c
                         IN  IF pos <= Len(rows[m])
                             THEN Num(PyFloat(rows[m][pos]).val)
                             ELSE NumNaN]]]])

\* pd.concat([thermo_data, frame]): rows appended with their own index, the
\* columns united, a column a row lacks filled with NaN
concat(t1, t2) ==
    LET cs == t1.columns \cup t2.columns
        rs == t1.rows \o t2.rows
    IN  [columns |-> cs,
         rows |-> [m \in DOMAIN rs |->
                    [index |-> rs[m].index,
                     cols  |-> [c \in cs |->
                                 IF c \in DOMAIN rs[m].cols
                                 THEN rs[m].cols[c] ELSE NumNaN]]]]

RECURSIVE concat_logs(_, _)
\* the loop over the log paths: the first failing log raises
concat_logs(paths, acc) ==
    IF paths = <<>> THEN Ok(acc)
    ELSE Let(log_frame(disk[paths[1].kind][paths[1].chunk]), LAMBDA f :
             IF f.err # "" THEN f
             ELSE Let(concat(acc, f.val),
                      LAMBDA all : concat_logs(Tail(paths), all)))

\* thermo_data["Boxtime"] = thermo_data["Step"].map(lambda x: x * step_size)
add_boxtime(rows, step_size) ==
    [m \in DOMAIN rows |->
       [index |-> rows[m].index,
        cols  |-> [c \in DOMAIN rows[m].cols \cup {W("Boxtime")} |->
                     IF c = W("Boxtime")
                     THEN BoxtimeOf(rows[m].cols[W("Step")], step_size)
                     ELSE rows[m].cols[c]]]]

\* the rows drop_duplicates(["Step"]) keeps: the first of each Step value
KeptRowsMut(rows) ==
    {m \in DOMAIN rows :
       \A o \in DOMAIN rows :
          o > m => rows[o].cols[W("Step")] # rows[m].cols[W("Step")]}
KeptRows(rows) ==
    {m \in DOMAIN rows :
       \A o \in 1..(m - 1) : rows[o].cols[W("Step")] # rows[m].cols[W("Step")]}

drop_duplicates(rows) ==
    LET keep == KeptRows(rows)
        kept == SelectSeq([m \in DOMAIN rows |-> m], LAMBDA m : m \in keep)
    IN  [m \in DOMAIN kept |-> rows[kept[m]]]

\* reset_index(drop=True)
reset_index(rows) ==
    [m \in DOMAIN rows |-> [rows[m] EXCEPT !.index = m - 1]]

\* The table read_thermo assembles from the log paths
thermo_table(paths) ==
    Let(concat_logs(paths, [columns |-> {}, rows |-> <<>>]), LAMBDA t :
        IF t.err # "" THEN t
        ELSE IF W("Step") \notin t.val.columns THEN Err("KeyError")
        ELSE Let(add_boxtime(t.val.rows, meta.step_size), LAMBDA timed :
             Let(drop_duplicates(timed), LAMBDA kept :
                 Ok(reset_index(kept)))))

-----------------------------------------------------------------------------
(* The Simulation object: values of its fields *)

None == [st |-> "None"]
Lazy(format, paths) == [st |-> "lazy", format |-> format, paths |-> paths]
Value(v) == [st |-> "value", val |-> v]

Call(op, kind, format, raised, paths, out) ==
    [op |-> op, kind |-> kind, format |-> format, raised |-> raised,
     paths |-> paths, out |-> out]
NoCall == Call("", "", "", "", <<>>, <<>>)
NoRet == [done |-> FALSE, r |-> Err("")]

ParserMeta == [n_chunks |-> 1, n_atoms |-> NAtoms, step_size |-> 1]

-----------------------------------------------------------------------------
(* The Simulation object: its methods *)

VALID_TRAJ_FORMATS == {"xarray", "frame"}

\* Simulation.__init__
Construct ==
    /\ pc = "new"
    /\ LET r == decide_chunks(given, meta.n_chunks)
       IN  IF r.err # ""
           THEN /\ pc' = "dead"
                /\ call' = Call("__init__", "", "", r.err, <<>>, <<>>)
                /\ UNCHANGED chunks
           ELSE /\ pc' = "ready"
                /\ chunks' = r.val
                /\ call' = Call("__init__", "", "", "", <<>>, <<>>)
    /\ trajectory' = None /\ bonds' = None /\ species' = None /\ thermo' = None
    /\ UNCHANGED <<meta, given, eager, disk, arg, ret>>

\* The ways a bag-reading method can end: the exception raised ("" if none),
\* the paths it resolved, and the attribute value it stores, if it stores one
BagCall(kind, format) ==
    Let(get_data_files(kind), LAMBDA p :
    LET end(raised, set, attr) ==
            [raised |-> raised, paths |-> p.val, set |-> set, attr |-> attr]
    IN  IF p.err # "" THEN {end(p.err, FALSE, None)}
        ELSE IF p.val = <<>> THEN {end("OSError", FALSE, None)}
        ELSE IF kind = "trajectory" /\ format \notin VALID_TRAJ_FORMATS
          THEN {end("InvalidFormat", FALSE, None)}
        ELSE IF eager
          THEN {IF o.err # "" THEN end(o.err, FALSE, None)
                ELSE end("", TRUE, Value(o.val)) :
                  o \in Outcomes(kind, format, p.val)}
        ELSE {end("", TRUE, Lazy(format, p.val))})

StoredMut(old, o) == IF o.set THEN o.attr ELSE None

\* self.<attribute> = ...: the last statement of the method, reached only
\* when nothing was raised before it
Stored(old, o) == IF o.set THEN o.attr ELSE old

read_trajectory(format) ==
    /\ pc = "ready"
    /\ \E o \in BagCall("trajectory", format) :
         /\ trajectory' = Stored(trajectory, o)
         /\ call' = Call("read_trajectory", "trajectory", format, o.raised,
                         o.paths, <<>>)
    /\ UNCHANGED <<meta, given, eager, disk, pc, chunks, bonds, species,
                   thermo, arg, ret>>

read_bonds ==
    /\ pc = "ready"
    /\ \E o \in BagCall("bonds", "") :
         /\ bonds' = Stored(bonds, o)
         /\ call' = Call("read_bonds", "bonds", "", o.raised, o.paths, <<>>)
    /\ UNCHANGED <<meta, given, eager, disk, pc, chunks, trajectory, species,
                   thermo, arg, ret>>

read_species ==
    /\ pc = "ready"
    /\ \E o \in BagCall("species", "") :
         /\ species' = Stored(species, o)
         /\ call' = Call("read_species", "species", "", o.raised, o.paths, <<>>)
    /\ UNCHANGED <<meta, given, eager, disk, pc, chunks, trajectory, bonds,
                   thermo, arg, ret>>

read_thermo ==
    /\ pc = "ready"
    /\ \E p \in {get_data_files("log")} : \E t \in {thermo_table(p.val)} :
           IF p.err # ""
           THEN /\ call' = Call("read_thermo", "log", "", p.err, <<>>, <<>>)
                /\ UNCHANGED thermo
           ELSE IF t.err # ""
           THEN /\ call' = Call("read_thermo", "log", "", t.err, p.val, <<>>)
                /\ UNCHANGED thermo
           ELSE /\ call' = Call("read_thermo", "log", "", "", p.val, <<>>)
                /\ thermo' = Value(t.val)
    /\ UNCHANGED <<meta, given, eager, disk, pc, chunks, trajectory, bonds,
                   species, arg, ret>>

\* The caller forces a stored lazy pipeline: sim.<attribute>.compute()
Force(kind, attr) ==
    /\ pc = "ready"
    /\ attr.st = "lazy"
    /\ \E o \in Outcomes(kind, attr.format, attr.paths) :
         call' = Call("compute", kind, attr.format, o.err, attr.paths, o.val)
    /\ UNCHANGED <<meta, given, eager, disk, pc, chunks, trajectory, bonds,
                   species, thermo, arg, ret>>

force_trajectory == Force("trajectory", trajectory)
force_bonds == Force("bonds", bonds)
force_species == Force("species", species)

-----------------------------------------------------------------------------
(* The files on disk *)

Kinds == {"trajectory", "bonds", "species", "log"}
Timesteps == {0, 1}

File(segs) == [exists |-> TRUE, marker |-> TRUE, segs |-> segs]
MissingFile == [exists |-> FALSE, marker |-> FALSE, segs |-> <<>>]

\* " <ts>\n#\n <record>\n#\n# Timestep": atom 1 bonded to atom 2, order b/10
BondSegment(ts, b) ==
    <<RawLine(FALSE, <<ts>>), RawLine(TRUE, <<W("#")>>),
      RawLine(FALSE, LammpsRecord([a |-> 1, ns |-> <<2>>, bs |-> <<b>>])),
      RawLine(TRUE, <<W("#")>>), RawLine(TRUE, <<W("#"), W("Timestep")>>)>>

\* " No_Moles No_Specs H2O\n<ts> 50 1 <c>\n# Timestep"
SpeciesDelim == << <<W("#"), W("Timestep")>> >>
SpeciesSegment(ts, c) ==
    << <<W("No_Moles"), W("No_Specs"), W("H2O")>>, <<ts, I(50), I(1), I(c)>>,
       <<W("#"), W("Timestep")>> >>

\* An ATOMS block with every column the tensor needs, ids in descending order
ItemAtomsFull(x) ==
    Piece(<<W("ATOMS"), W("id"), W("type"), W("xu"), W("yu"), W("zu"),
            W("vx"), W("vy"), W("vz"), W("q")>>,
          [m \in 1..NAtoms |->
             <<I(NAtoms + 1 - m), I(1), F(x), F(x), F(x), F(0), F(0), F(0), F(0)>>]
            \o << <<>> >>,
          TRUE)

TrajSegment(ts, x) ==
    <<StepPiece(ts), ItemNumber, ItemBox, ItemAtomsFull(x), TimestepPiece>>

\* "Temp\n<step> <temp>\n...\n" between the markers "Step" and "Loop"
LogFile(rows) == File(<< <<W("Temp")>> >> \o rows \o << <<>> >>)

\* A chunk file of a kind holding the given (timestep, payload) segments
BagFile(kind, segs) ==
    IF kind = "bonds"
      THEN File(<<BondDelim>> \o [m \in DOMAIN segs |-> BondSegment(segs[m][1], segs[m][2])])
    ELSE IF kind = "species"
      THEN File(<<SpeciesDelim>> \o [m \in DOMAIN segs |-> SpeciesSegment(segs[m][1], segs[m][2])])
    ELSE IF kind = "trajectory"
      THEN File(<<TrajDelim>> \o [m \in DOMAIN segs |-> TrajSegment(segs[m][1], segs[m][2])])
    ELSE LogFile([m \in DOMAIN segs |-> <<segs[m][1], I(segs[m][2])>>])

Payloads == {8, 9}
GoodSegs == {<<I(t), x>> : t \in Timesteps, x \in Payloads}

PlainFile(kind) == BagFile(kind, << <<I(0), 8>> >>)
BadFile(kind) == BagFile(kind, << <<W("x"), 8>> >>)

PlainDisk(n) == [k \in Kinds |-> [c \in 0..(n - 1) |-> PlainFile(k)]]

\* Every file plain but one, which is missing or holds a malformed segment
OneOffDisks(n) ==
    UNION {{[PlainDisk(n) EXCEPT ![k][c] = f] : f \in {MissingFile, BadFile(k)}} :
             k \in Kinds, c \in 0..(n - 1)}

\* The files of one kind hold any segments, the others are plain
VaryingDisks(kind, n) ==
    {[PlainDisk(n) EXCEPT ![kind] = [c \in 0..(n - 1) |-> BagFile(kind, fs[c])]] :
        fs \in [0..(n - 1) -> SeqsUpTo(GoodSegs, MaxSegs)]}

-----------------------------------------------------------------------------
(* Specifications of the object *)

StepSizes == {2, 5}
Metas == {[n_chunks |-> n, n_atoms |-> NAtoms, step_size |-> d] :
             n \in 1..MaxChunks, d \in StepSizes}

Givens ==
    {GivenNone} \cup {GivenInt(x) : x \in (-1)..MaxChunks}
      \cup {GivenList(l) : l \in SeqsUpTo((-1)..MaxChunks, MaxReq)}

\* The state before Simulation(...) is called
InitObject(metas, givens, disks(_)) ==
    /\ meta \in metas
    /\ given \in givens
    /\ eager \in BOOLEAN
    /\ disk \in disks(meta.n_chunks)
    /\ pc = "new"
    /\ chunks = <<>>
    /\ trajectory = None /\ bonds = None /\ species = None /\ thermo = None
    /\ call = NoCall
    /\ arg = [fn |-> ""]
    /\ ret = NoRet

SomeDisks(n) == {PlainDisk(n)} \cup OneOffDisks(n)

Init == InitObject({m \in Metas : m.step_size = 2}, Givens, SomeDisks)

Next ==
    \/ Construct
    \/ \E format \in {"xarray", "frame", "csv"} : read_trajectory(format)
    \/ read_bonds
    \/ read_species
    \/ read_thermo
    \/ force_trajectory
    \/ force_bonds
    \/ force_species

Spec == Init /\ [][Next]_vars

\* Overlapping chunks: the bag files of one kind hold any segments
MergeDisks(n) ==
    VaryingDisks("bonds", n) \cup VaryingDisks("species", n)
      \cup VaryingDisks("trajectory", n)

InitMerge ==
    InitObject({m \in Metas : m.step_size = 2},
               {GivenNone, GivenList(<<1, 0>>)}, MergeDisks)

NextMerge ==
    \/ Construct
    \/ \E format \in VALID_TRAJ_FORMATS : read_trajectory(format)
    \/ read_bonds
    \/ read_species
    \/ force_trajectory
    \/ force_bonds
    \/ force_species

SpecMerge == InitMerge /\ [][NextMerge]_vars

\* Thermo logs: the log files hold any rows
ThermoDisks(n) == VaryingDisks("log", n)

InitThermo ==
    InitObject(Metas, {GivenNone, GivenList(<<1, 0>>), GivenList(<<>>)},
               ThermoDisks)

NextThermo == Construct \/ read_thermo

SpecThermo == InitThermo /\ [][NextThermo]_vars

-----------------------------------------------------------------------------
(* Claims about the object, checked under Spec, SpecMerge and SpecThermo *)

\* The chunk indices a constructor argument asks for, in the order given
Requested(g) ==
    IF g.t = "none" THEN [x \in 1..meta.n_chunks |-> x - 1]
    ELSE IF g.t = "int" THEN <<g.i>> ELSE g.l

OutOfRange(x) == x < 0 \/ x >= meta.n_chunks

\* C1: Simulation(...) raises InvalidChunks if and only if a requested chunk
\* index lies outside [0, n_chunks); None resolves to chunks 0..n_chunks-1.
C1_InvalidChunks ==
    /\ pc = "dead" =>
         \E m \in DOMAIN Requested(given) : OutOfRange(Requested(given)[m])
    /\ pc = "ready" =>
         /\ \A m \in DOMAIN Requested(given) : ~OutOfRange(Requested(given)[m])
         /\ given.t = "none" =>
              chunks = [x \in 1..meta.n_chunks |-> x - 1]
    /\ (call.op = "__init__" /\ call.raised # "") =>
         (pc = "dead" /\ call.raised = "InvalidChunks")

C1_Witness ==
    /\ pc = "dead" /\ call.raised = "InvalidChunks"
    /\ given.t = "list" /\ Len(given.l) = 2
    /\ given.l[1] = 0 /\ given.l[2] = meta.n_chunks

ReadOps == {"read_trajectory", "read_bonds", "read_species", "read_thermo"}

\* a read_* call whose path resolution did not fail
Resolved == call.op \in ReadOps /\ call.raised # "AssertionError"

Ascending(l) == \A x, y \in DOMAIN l : x < y => l[x] < l[y]

\* C2 as claimed: for a request within range, in any order and with repeats,
\* the resolver returns one path per distinct chunk, in ascending chunk order.
C2_AsClaimed ==
    Resolved =>
      /\ Len(call.paths) = Cardinality(Range(Requested(given)))
      /\ Ascending([m \in DOMAIN call.paths |-> call.paths[m].chunk])

\* C2 amended: the resolver returns one path per entry of the request, in the
\* order of the request, a repeated index giving a repeated path; for None,
\* and for a list in ascending order, these are |C| paths in ascending order.
C2_Paths ==
    Resolved =>
      /\ Len(call.paths) = Len(Requested(given))
      /\ \A m \in DOMAIN call.paths :
            call.paths[m] = Path(call.kind, Requested(given)[m])
      /\ (given.t = "none" \/ Ascending(Requested(given))) =>
            /\ Len(call.paths) = Cardinality(Range(Requested(given)))
            /\ Ascending([m \in DOMAIN call.paths |-> call.paths[m].chunk])

C2_Witness ==
    /\ call.op = "read_bonds" /\ call.raised = ""
    /\ given = GivenList(<<1, 0>>)
    /\ call.paths = <<Path("bonds", 1), Path("bonds", 0)>>

\* No two frames of a series have the same timestep
DistinctTimesteps(frames) ==
    \A x, y \in DOMAIN frames :
       frames[x].timestep = frames[y].timestep => x = y

\* The frames of a series that are the first of their timestep, in order
FirstPerTimestep(frames) ==
    LET first == {x \in DOMAIN frames :
                    \A y \in 1..(x - 1) : frames[y].timestep # frames[x].timestep}
        kept  == SelectSeq([m \in DOMAIN frames |-> m], LAMBDA m : m \in first)
    IN  [m \in DOMAIN kept |-> frames[kept[m]]]

\* The frames parsed from the segments of the resolved files, file after file
ParsedFrames(kind, paths) ==
    LET bag == IF kind = "bonds" THEN bonds_corpus(paths)
               ELSE IF kind = "species" THEN species_corpus(paths)
               ELSE traj_corpus(paths)
    IN  [m \in DOMAIN bag |-> bag[m].val]

Deduplicated(kind, paths, frames) ==
    /\ DistinctTimesteps(frames)
    /\ frames = FirstPerTimestep(ParsedFrames(kind, paths))

\* C3 as claimed: the evaluated bonds and species series hold one frame per
\* distinct timestep, the one of the earlier chunk.
C3_OneFramePerTimestep ==
    /\ (call.op = "compute" /\ call.kind \in {"bonds", "species"}
          /\ call.raised = "") => Deduplicated(call.kind, call.paths, call.out)
    /\ (call.op = "read_bonds" /\ call.raised = "" /\ bonds.st = "value") =>
         Deduplicated("bonds", call.paths, bonds.val)
    /\ (call.op = "read_species" /\ call.raised = "" /\ species.st = "value") =>
         Deduplicated("species", call.paths, species.val)

\* C4 as claimed: the trajectory holds a timestep shared by two chunks once:
\* no two frames of equal timestep, no repeated value on the step axis.
C4_OneStepPerTimestep ==
    /\ (call.op = "compute" /\ call.kind = "trajectory" /\ call.raised = "") =>
         IF call.format = "frame"
         THEN Deduplicated("trajectory", call.paths, call.out)
         ELSE \A x, y \in DOMAIN call.out.step :
                 call.out.step[x] = call.out.step[y] => x = y
    /\ (call.op = "read_trajectory" /\ call.raised = ""
          /\ trajectory.st = "value") =>
         IF call.format = "frame"
         THEN Deduplicated("trajectory", call.paths, trajectory.val)
         ELSE \A x, y \in DOMAIN trajectory.val.step :
                 trajectory.val.step[x] = trajectory.val.step[y] => x = y

\* The data rows of the logs as written on disk, in the order read_thermo
\* meets them: the lines between the header line and the last line
LogRows(paths) ==
    Flatten([m \in DOMAIN paths |->
               LET lines == disk["log"][paths[m].chunk].segs
               IN  Slice(lines, 1, Len(lines) - 1)])

FirstOfStep(rows) ==
    {e \in DOMAIN rows : \A o \in 1..(e - 1) : rows[o][1] # rows[e][1]}

\* C5: the thermo table has pairwise distinct Step values, holds for each
\* Step the first row met in chunk order, in the order met, and is indexed
\* 0..n-1.
C5_ThermoDedup ==
    (call.op = "read_thermo" /\ call.raised = "") =>
      LET rows  == thermo.val
          met   == LogRows(call.paths)
          first == FirstOfStep(met)
      IN  /\ \A x, y \in DOMAIN rows :
                rows[x].cols[W("Step")] = rows[y].cols[W("Step")] => x = y
          /\ Len(rows) = Cardinality(first)
          /\ \A m \in DOMAIN rows :
                /\ rows[m].index = m - 1
                /\ \E e \in first :
                      /\ Cardinality({f \in first : f <= e}) = m
                      /\ rows[m].cols[W("Step")] = Num(10 * met[e][1].n)
                      /\ rows[m].cols[W("Temp")] = Num(10 * met[e][2].n)

C5_Witness ==
    /\ call.op = "read_thermo" /\ call.raised = ""
    /\ chunks = <<0, 1>>
    /\ LogRows(call.paths) = << <<I(0), I(8)>>, <<I(1), I(8)>>, <<I(1), I(9)>> >>
    /\ Len(thermo.val) = 2
    /\ thermo.val[2].cols[W("Temp")] = Num(80)
    /\ thermo.val[2].index = 1

\* C6: every row of the thermo table has Boxtime = Step * step_size.
C6_Boxtime ==
    (call.op = "read_thermo" /\ call.raised = "") =>
      \A m \in DOMAIN thermo.val :
         /\ ~thermo.val[m].cols[W("Boxtime")].nan
         /\ thermo.val[m].cols[W("Boxtime")].v =
               thermo.val[m].cols[W("Step")].v * meta.step_size

C6_Witness ==
    /\ call.op = "read_thermo" /\ call.raised = ""
    /\ meta.step_size = 5
    /\ \E m \in DOMAIN thermo.val :
         /\ thermo.val[m].cols[W("Step")] = Num(10)
         /\ thermo.val[m].cols[W("Boxtime")] = Num(50)
    /\ Len(LogRows(call.paths)) > Len(thermo.val)

-----------------------------------------------------------------------------
(* The parsers applied on their own: specification *)

InitParse ==
    /\ meta = ParserMeta
    /\ given = GivenNone
    /\ eager = FALSE
    /\ disk = <<>>
    /\ pc = "parse"
    /\ chunks = <<>>
    /\ trajectory = None /\ bonds = None /\ species = None /\ thermo = None
    /\ call = NoCall
    /\ arg \in ParseInputs
    /\ ret = NoRet

ApplyBond ==
    /\ pc = "parse" /\ ~ret.done /\ arg.fn = "bond"
    /\ ret' = [done |-> TRUE, r |-> process_bond_step(arg.text, meta.n_atoms)]
    /\ UNCHANGED <<objvars, arg>>

ApplySpecies ==
    /\ pc = "parse" /\ ~ret.done /\ arg.fn = "species"
    /\ ret' = [done |-> TRUE, r |-> process_species_step(arg.text)]
    /\ UNCHANGED <<objvars, arg>>

ApplyTraj ==
    /\ pc = "parse" /\ ~ret.done /\ arg.fn = "traj"
    /\ ret' = [done |-> TRUE, r |-> process_traj_step(arg.text)]
    /\ UNCHANGED <<objvars, arg>>

NextParse == ApplyBond \/ ApplySpecies \/ ApplyTraj

SpecParse == InitParse /\ [][NextParse]_vars

-----------------------------------------------------------------------------
(* Claims about the parsers, checked under SpecParse *)

\* The matrix a list of records stands for: entry (r, c) is the sum of the
\* bond orders b_m of every record with a - 1 = r and n_m - 1 = c.
BondEntry(recs, rc) ==
    SumSeq(Flatten([x \in DOMAIN recs |->
                     [m \in DOMAIN recs[x].ns |->
                        IF <<recs[x].a - 1, recs[x].ns[m] - 1>> = rc
                        THEN recs[x].bs[m] ELSE 0]]))

BondMatrixIs(recs) ==
    /\ ret.r.err = ""
    /\ ret.r.val.bonds.shape = <<meta.n_atoms, meta.n_atoms>>
    /\ \A rc \in DOMAIN ret.r.val.bonds.data :
          ret.r.val.bonds.data[rc] = BondEntry(recs, rc)

SpecExampleRecord == [a |-> 1, ns |-> <<2, 3>>, bs |-> <<9, 8>>]

\* C7 as claimed: a record laid out as "1 1 2 2 3 0.0 0.0 0.0 0.0 0.9 0.8"
\* (id, type, k, k neighbour ids, four ignored fields, k bond orders) gives a
\* matrix whose entries are (a - 1, n_m - 1) = b_m.
C7_AsClaimed ==
    (ret.done /\ arg.fn = "bond" /\ arg.layout = "trailing")
        => BondMatrixIs(arg.recs)

\* C7 amended: a record laid out as the code reads it (id, type, k, k
\* neighbour ids, one ignored field, k bond orders, three trailing fields)
\* gives a matrix of shape (n_atoms, n_atoms) whose entry (a - 1, n_m - 1) is
\* the sum of the b_m given for it, every other entry 0; the record
\* "1 1 2 2 3 0.0 0.0 0.0 0.0 0.9 0.8" gives no non-zero entry.
C7_BondMatrix ==
    /\ (ret.done /\ arg.fn = "bond" /\ arg.layout = "lammps")
          => BondMatrixIs(arg.recs)
    /\ (ret.done /\ arg.fn = "bond" /\ arg.layout = "trailing"
          /\ arg.recs = <<SpecExampleRecord>>)
          => /\ ret.r.err = ""
             /\ \A rc \in DOMAIN ret.r.val.bonds.data :
                   ret.r.val.bonds.data[rc] = 0

C7_Witness ==
    /\ ret.done /\ arg.fn = "bond" /\ arg.layout = "lammps"
    /\ arg.recs = <<SpecExampleRecord>>
    /\ ret.r.err = ""
    /\ ret.r.val.bonds.data[<<0, 1>>] = 9
    /\ ret.r.val.bonds.data[<<0, 2>>] = 8
    /\ Cardinality({rc \in DOMAIN ret.r.val.bonds.data :
                      ret.r.val.bonds.data[rc] # 0}) = 2

\* C8 as claimed: a species segment whose header names and data counts differ
\* in number makes __process_species_step raise.
C8_MismatchRaises ==
    (ret.done /\ arg.fn = "species" /\ Len(arg.recs[1]) # Len(arg.recs[2]))
        => ret.r.err # ""

\* C9: with m distinct species names and m integer counts the frame has the
\* first three data tokens as timestep, no_moles and no_species, and maps the
\* i-th name to the i-th count.
C9_SpeciesFrame ==
    (/\ ret.done /\ arg.fn = "species"
     /\ Len(arg.recs[1]) = Len(arg.recs[2])
     /\ \A x \in DOMAIN arg.recs[2] : arg.recs[2][x].k = "i"
     /\ \A x, y \in DOMAIN arg.recs[1] : arg.recs[1][x] = arg.recs[1][y] => x = y)
    => /\ ret.r.err = ""
       /\ ret.r.val.timestep = arg.text[2][1].n
       /\ ret.r.val.no_moles = arg.text[2][2].n
       /\ ret.r.val.no_species = arg.text[2][3].n
       /\ DOMAIN ret.r.val.species = Range(arg.recs[1])
       /\ \A x \in DOMAIN arg.recs[1] :
             ret.r.val.species[arg.recs[1][x]] = arg.recs[2][x].n

C9_Witness ==
    /\ ret.done /\ arg.fn = "species"
    /\ arg.recs = << <<W("H2O"), W("NaCl")>>, <<I(30), I(20)>> >>
    /\ ret.r.err = ""
    /\ ret.r.val.timestep = 100 /\ ret.r.val.no_moles = 50
    /\ ret.r.val.no_species = 2
    /\ ret.r.val.species[W("H2O")] = 30 /\ ret.r.val.species[W("NaCl")] = 20

\* The labels the claim allows, and a sub-block whose label is none of them
ClaimedLabels == {<<"NUMBER", "OF", "ATOMS">>, <<"BOX", "BOUNDS">>,
                  <<"ATOMS">>, <<"DIMENSIONS">>}

HasInvalidLabel(item) ==
    item_regex(item).err = "" /\ item_regex(item).val.label \notin ClaimedLabels

-----------------------------------------------------------------------------
(* Claims about the failure order and the frame effect of the readers,
   checked under Spec *)

\* C11 as claimed: read_trajectory with a format other than "xarray" and
\* "frame" raises InvalidFormat before any path is existence-checked, also
\* when a trajectory file of a chosen chunk is missing.
C11_InvalidFormatFirst ==
    (call.op = "read_trajectory" /\ call.format \notin VALID_TRAJ_FORMATS) =>
      (call.raised = "InvalidFormat" /\ call.paths = <<>>)


BagOps == {"read_trajectory", "read_bonds", "read_species"}

\* Failures of a read_* call that are not failures of a segment
CallErrors == {"AssertionError", "OSError", "InvalidFormat"}

\* One result per segment of the resolved files: what the pipeline's elements
\* evaluate to
SegmentResults(kind, format, paths) ==
    IF kind = "bonds" THEN bonds_corpus(paths)
    ELSE IF kind = "species" THEN species_corpus(paths)
    ELSE IF format = "xarray" THEN xarray_corpus(paths)
    ELSE traj_corpus(paths)

SegmentFailures(kind, format, paths) ==
    LET rs == SegmentResults(kind, format, paths)
    IN  {rs[m].err : m \in {x \in DOMAIN rs : rs[x].err # ""}}

Attribute(kind) ==
    IF kind = "trajectory" THEN trajectory
    ELSE IF kind = "bonds" THEN bonds ELSE species

\* C13: with eager=False a read_* call raises no failure of a segment and
\* stores the unevaluated pipeline, and forcing it raises a failing segment's
\* error; with eager=True the call itself raises that error; an evaluation
\* that returns holds every segment of the input.
C13_Propagation ==
    /\ (call.op \in BagOps /\ ~eager) =>
         /\ call.raised \in CallErrors \cup {""}
         /\ call.raised = "" => Attribute(call.kind).st = "lazy"
    /\ (call.op \in BagOps /\ eager /\ call.raised \notin CallErrors) =>
         LET fails == SegmentFailures(call.kind, call.format, call.paths)
         IN  /\ fails # {} => call.raised \in fails
             /\ call.raised = "" =>
                  (fails = {} /\ Attribute(call.kind).st = "value")
    /\ call.op = "compute" =>
         LET rs    == SegmentResults(call.kind, call.format, call.paths)
             fails == SegmentFailures(call.kind, call.format, call.paths)
         IN  /\ ~eager
             /\ fails # {} => (call.raised \in fails /\ call.out = <<>>)
             /\ call.raised = "" =>
                  /\ fails = {}
                  /\ IF call.kind = "trajectory" /\ call.format = "xarray"
                     THEN Len(call.out.step) = Len(rs)
                     ELSE call.out = [m \in DOMAIN rs |-> rs[m].val]

\* a lazy read_bonds returned, and forcing it raised the bad segment's error
\* although another chunk's segment is well formed
C13_Witness ==
    /\ call.op = "compute" /\ call.kind = "bonds" /\ ~eager
    /\ bonds.st = "lazy"
    /\ Len(SegmentResults("bonds", "", call.paths)) = 2
    /\ SegmentFailures("bonds", "", call.paths) = {"ValueError"}
    /\ call.raised = "ValueError"

-----------------------------------------------------------------------------
(* The readers on files that change between calls *)

\* Outside the program: a file of a complete set of plain files is deleted,
\* or rewritten with a malformed segment
Damage ==
    /\ pc = "ready"
    /\ disk = PlainDisk(meta.n_chunks)
    /\ \E k \in Kinds, c \in 0..(meta.n_chunks - 1) :
         \E f \in {MissingFile, BadFile(k)} :
            disk' = [disk EXCEPT ![k][c] = f]
    /\ UNCHANGED <<meta, given, eager, pc, chunks, trajectory, bonds, species,
                   thermo, call, arg, ret>>

PlainDisks(n) == {PlainDisk(n)}

InitFrame ==
    InitObject({m \in Metas : m.step_size = 2},
               {GivenNone, GivenList(<<0>>)}, PlainDisks)

NextFrame ==
    \/ Next
    \/ Damage

SpecFrame == InitFrame /\ [][NextFrame]_vars

\* C16: a read_* call that raises leaves trajectory, bonds, species and
\* thermo as they were, and a read_* call, raising or not, changes neither
\* the attributes of the other kinds nor self.chunks nor self.meta.
C16_FrameEffect ==
    [][(pc = "ready" /\ call'.op \in ReadOps /\ disk' = disk) =>
         /\ chunks' = chunks /\ meta' = meta
         /\ call'.kind # "trajectory" => trajectory' = trajectory
         /\ call'.kind # "bonds" => bonds' = bonds
         /\ call'.kind # "species" => species' = species
         /\ call'.kind # "log" => thermo' = thermo
         /\ call'.raised # "" =>
              UNCHANGED <<trajectory, bonds, species, thermo>>]_vars

\* an eager read_bonds raised on a malformed segment after bonds and the
\* trajectory had been read: both still hold the values read before
C16_Witness ==
    /\ call.op = "read_bonds" /\ call.raised = "ValueError"
    /\ bonds.st = "value" /\ trajectory.st = "value"
    /\ chunks = <<0, 1>>

-----------------------------------------------------------------------------
(* The trajectory tensor over frames of any atom count *)

\* An ATOMS block with every column the tensor needs and n rows, ids descending
ItemAtomsOf(n) ==
    Piece(<<W("ATOMS"), W("id"), W("type"), W("xu"), W("yu"), W("zu"),
            W("vx"), W("vy"), W("vz"), W("q")>>,
          [m \in 1..n |->
             <<I(n + 1 - m), I(1), F(5), F(5), F(5), F(0), F(0), F(0), F(0)>>]
            \o << <<>> >>,
          TRUE)

TensorSegment(ts, n) ==
    <<StepPiece(I(ts)), ItemNumber, ItemBox, ItemAtomsOf(n), TimestepPiece>>

\* Atom counts of a segment: one less than, equal to, one more than n_atoms
RowCounts == {NAtoms - 1, NAtoms, NAtoms + 1}

TensorDisks(n) ==
    {[PlainDisk(n) EXCEPT !["trajectory"] =
        [c \in 0..(n - 1) |->
           File(<<TrajDelim>> \o
                [m \in DOMAIN fs[c] |-> TensorSegment(fs[c][m][1], fs[c][m][2])])]] :
        fs \in [0..(n - 1) -> SeqsUpTo(Timesteps \X RowCounts, MaxSegs)]}

InitTensor ==
    InitObject({m \in Metas : m.step_size = 2},
               {GivenNone, GivenList(<<1, 0>>)}, TensorDisks)

NextTensor ==
    \/ Construct
    \/ read_trajectory("xarray")
    \/ force_trajectory

SpecTensor == InitTensor /\ [][NextTensor]_vars

\* The row counts of the atom tables of the frames parsed from the paths
AtomCounts(paths) ==
    LET fr == traj_corpus(paths)
    IN  [m \in DOMAIN fr |-> Len(fr[m].val.atomic.rows)]

\* two frames differ in atom count / a frame's count is not n_atoms
CountsDiffer(paths) ==
    \E x, y \in DOMAIN AtomCounts(paths) :
       AtomCounts(paths)[x] # AtomCounts(paths)[y]
CountNotMeta(paths) ==
    \E x \in DOMAIN AtomCounts(paths) : AtomCounts(paths)[x] # meta.n_atoms

\* C12: evaluating the xarray trajectory fails and yields no tensor whenever
\* two of the frames have atom tables of different row counts, and whenever
\* a frame's atom count differs from the metadata's n_atoms.
C12_TensorFails ==
    /\ (call.op = "compute" /\ call.kind = "trajectory"
          /\ call.format = "xarray"
          /\ (CountsDiffer(call.paths) \/ CountNotMeta(call.paths))) =>
         (call.raised # "" /\ call.out = <<>>)
    /\ (call.op = "read_trajectory" /\ call.format = "xarray" /\ eager
          /\ call.raised # "AssertionError"
          /\ (CountsDiffer(call.paths) \/ CountNotMeta(call.paths))) =>
         (call.raised # "" /\ trajectory.st = "None")

C12_Witness ==
    /\ call.op = "compute" /\ call.format = "xarray"
    /\ AtomCounts(call.paths) = <<NAtoms, NAtoms - 1>>
    /\ call.raised = "ValueError"
    /\ trajectory.st = "lazy"


-----------------------------------------------------------------------------
(* Claims about the frame of a trajectory segment, checked under SpecParse *)

\* a call of __process_traj_step that returned a frame
TrajReturned == ret.done /\ arg.fn = "traj" /\ ret.r.err = ""

\* C14 as claimed: a segment with a NUMBER OF ATOMS sub-block of body N gives
\* a frame whose n_atoms field is the integer N.
C14_NAtomsField ==
    (TrajReturned /\ \E m \in DOMAIN arg.recs : arg.recs[m] = ItemNumber) =>
      (ret.r.val.n_atoms.set /\ ret.r.val.n_atoms.val = ItemNumber.body[1][1].n)

\* The sub-blocks of the segment with the given label, in order
ItemsLabelled(label) ==
    SelectSeq(arg.recs, LAMBDA it : item_regex(it).val.label = label)

\* The ids on the body lines of an ATOMS sub-block whose first column is id
ObservedIds(item) ==
    {item.body[m][1] : m \in {x \in DOMAIN item.body : item.body[x] # <<>>}}

\* C15 as claimed: the atom table of the frame is keyed by id, ascending in
\* id, with exactly one row per atom id observed in the segment; timestep is
\* the leading integer and box bounds has one pair per BOX BOUNDS body line.
C15_AtomTable ==
    TrajReturned =>
      /\ ret.r.val.timestep = arg.text[1].body[1][1].n
      /\ ret.r.val.atomic.set =>
           LET rows == ret.r.val.atomic.rows
               last == ItemsLabelled(<<"ATOMS">>)[Len(ItemsLabelled(<<"ATOMS">>))]
           IN  /\ \A x, y \in DOMAIN rows : x < y => IdLeq(rows[x].id, rows[y].id)
               /\ \A x, y \in DOMAIN rows : rows[x].id = rows[y].id => x = y
               /\ {rows[x].id : x \in DOMAIN rows} = ObservedIds(last)
               /\ \A x \in DOMAIN rows : rows[x].row[W("id")] = rows[x].id
      /\ ret.r.val.box.set =>
           LET last == ItemsLabelled(<<"BOX", "BOUNDS">>)
                         [Len(ItemsLabelled(<<"BOX", "BOUNDS">>))]
           IN  /\ Len(ret.r.val.box.bounds) = Len(last.body) - 1
               /\ \A x \in DOMAIN ret.r.val.box.bounds :
                     Len(ret.r.val.box.bounds[x]) = 2

=============================================================================
